---- MODULE Spec2Model ----
(***************************************************************************)
(* Model of shop_analysis.py and extended_analysis.py: the record loader   *)
(* (read_shops_from_excel), the two Google Places lookups, the website     *)
(* classifier, the message composer and the batch loop of analyse_shops.   *)
(*                                                                         *)
(* Python strings that the code inspects character by character (website  *)
(* URLs, domains) are sequences of one-character strings.  Python values   *)
(* that may be None are records [t, v]: None, or Str(chars).               *)
(***************************************************************************)
EXTENDS Integers, Sequences, FiniteSets, TLC

VARIABLES
    variant,              \* which script runs: "shop_analysis" or "extended_analysis"
    api_key,              \* os.getenv("GOOGLE_API_KEY")
    input_file,           \* the workbook at --input: sheet name -> sheet
    message_output_file,  \* --messages (extended variant), None when not given
    pc,                   \* position in analyse_shops
    shops_df,             \* the loaded, de-duplicated rows
    idx,                  \* position of the row being processed (1-based)
    place_id,             \* result of query_google_places for the current row
    website_url,          \* locals of the loop body
    has_site,
    direct,
    note,
    details,              \* result of get_place_details for the current row
    classifications,      \* extended variant: rows accumulated in memory
    messages,             \* extended variant: message rows accumulated in memory
    output_csv,           \* output file 1
    messages_csv,         \* output file 2
    events                \* what the run did, in order: network calls, rows, sleeps

vars == <<variant, api_key, input_file, message_output_file, pc, shops_df, idx,
          place_id, website_url, has_site, direct, note, details,
          classifications, messages, output_csv, messages_csv, events>>

----------------------------------------------------------------------------
(* Python values *)

None == [t |-> "None", v |-> <<>>]
Str(s) == [t |-> "str", v |-> s]

\* Python truthiness of None / str: `if x:`
Truthy(x) == x.t = "str" /\ x.v # <<>>

Range(s) == {s[i] : i \in 1..Len(s)}
Min(S) == CHOOSE x \in S : \A y \in S : x <= y

----------------------------------------------------------------------------
(* str methods used by classify_website and urlparse *)

ascii_lowercase == <<"a","b","c","d","e","f","g","h","i","j","k","l","m","n","o","p","q","r","s","t","u","v","w","x","y","z">>
ascii_uppercase == <<"A","B","C","D","E","F","G","H","I","J","K","L","M","N","O","P","Q","R","S","T","U","V","W","X","Y","Z">>

Letters == Range(ascii_lowercase) \cup Range(ascii_uppercase)
Uppercase == Range(ascii_uppercase)

\* str.lower(), one character
lower_char(c) ==
    IF c \in Uppercase
    THEN ascii_lowercase[CHOOSE i \in 1..Len(ascii_uppercase) : ascii_uppercase[i] = c]
    ELSE c

\* str.lower()
lower(s) == [i \in 1..Len(s) |-> lower_char(s[i])]

\* The variant of lstrip that removes one exact leading prefix (str.removeprefix)
removeprefix(s, prefix) ==
    IF Len(prefix) <= Len(s) /\ SubSeq(s, 1, Len(prefix)) = prefix
    THEN SubSeq(s, Len(prefix) + 1, Len(s))
    ELSE s

\* str.lstrip(chars): drops every leading character that occurs in chars
lstrip(s, chars) ==
    LET drop == Range(chars)
        keep == {i \in 1..Len(s) : s[i] \notin drop}
    IN  IF keep = {} THEN <<>> ELSE SubSeq(s, Min(keep), Len(s))

\* str.endswith(suffix)
endswith(s, suffix) ==
    /\ Len(suffix) <= Len(s)
    /\ SubSeq(s, Len(s) - Len(suffix) + 1, Len(s)) = suffix

\* str.find(c, start) on 1-based positions; 0 when c does not occur
find(s, c, start) ==
    LET at == {i \in start..Len(s) : s[i] = c}
    IN  IF at = {} THEN 0 ELSE Min(at)

----------------------------------------------------------------------------
(* urllib.parse.urlparse(website).netloc *)

scheme_chars == <<"a","b","c","d","e","f","g","h","i","j","k","l","m","n","o","p","q","r","s","t","u","v","w","x","y","z","A","B","C","D","E","F","G","H","I","J","K","L","M","N","O","P","Q","R","S","T","U","V","W","X","Y","Z","0","1","2","3","4","5","6","7","8","9","+","-",".">>

SchemeChars == Range(scheme_chars)

\* urlsplit: the url with its scheme (and the ':') removed, when it has one
strip_scheme(url) ==
    LET i == find(url, ":", 1)
    IN  IF /\ i > 1
           /\ url[1] \in Letters
           /\ \A k \in 1..(i - 1) : url[k] \in SchemeChars
        THEN SubSeq(url, i + 1, Len(url))
        ELSE url

\* _splitnetloc(url, 2): from after the "//" to the first of '/', '?', '#'
splitnetloc(url) ==
    LET delims == {i \in 3..Len(url) : url[i] \in {"/", "?", "#"}}
        delim  == IF delims = {} THEN Len(url) + 1 ELSE Min(delims)
    IN  SubSeq(url, 3, delim - 1)

\* urlparse(url).netloc: [exc, value]; ValueError for an unbalanced bracket
urlparse_netloc(website) ==
    LET url    == lstrip(website, <<" ">>)
        rest   == strip_scheme(url)
        netloc == IF Len(rest) >= 2 /\ SubSeq(rest, 1, 2) = <<"/", "/">>
                  THEN splitnetloc(rest)
                  ELSE <<>>
    IN  IF ("[" \in Range(netloc)) # ("]" \in Range(netloc))
        THEN [exc |-> "ValueError", value |-> <<>>]
        ELSE [exc |-> "", value |-> netloc]

----------------------------------------------------------------------------
(* classify_website *)

THIRD_PARTY_DOMAINS == {
    <<"d","o","o","r","d","a","s","h",".","c","o","m">>,
    <<"g","r","u","b","h","u","b",".","c","o","m">>,
    <<"u","b","e","r","e","a","t","s",".","c","o","m">>,
    <<"s","e","a","m","l","e","s","s",".","c","o","m">>,
    <<"p","o","s","t","m","a","t","e","s",".","c","o","m">>,
    <<"s","l","i","c","e","l","i","f","e",".","c","o","m">>,
    <<"s","l","i","c","e","l","i","f","e",".","o","n","e","l","i","n","k",".","m","e">>,
    <<"p","o","s","t","m","a","t","e","s",".","c","o","m">>,
    <<"b","e","s","t","c","a","f","e","s",".","o","n","l","i","n","e">>
}

\* domain.lower().lstrip("www.")
strip_www(domain) == lstrip(lower(domain), <<"w", "w", "w", ".">>)

\* str.__contains__: suffix occurs anywhere in s
contains(s, sub) ==
    \E i \in 1..(Len(s) - Len(sub) + 1) : SubSeq(s, i, i + Len(sub) - 1) = sub

\* A variant that matches with `third in domain` instead of endswith
is_third_party_substring(domain) ==
    \E third \in THIRD_PARTY_DOMAINS : contains(domain, third)

\* A variant with one more aggregator domain, which begins with 'w'
is_third_party_with_w(domain) ==
    \E third \in THIRD_PARTY_DOMAINS \cup {<<"w","w","w","a","b","c",".","c","o","m">>} :
        endswith(domain, third)

\* any(domain.endswith(third) for third in THIRD_PARTY_DOMAINS)
is_third_party(domain) == \E third \in THIRD_PARTY_DOMAINS : endswith(domain, third)

\* A variant whose except clause returns the pair the wrong way round
classify_website_swapped(website) ==
    IF ~Truthy(website)
    THEN <<FALSE, FALSE>>
    ELSE LET parsed == urlparse_netloc(website.v)
         IN  IF parsed.exc # ""
             THEN <<FALSE, TRUE>>
             ELSE IF is_third_party(strip_www(parsed.value))
                  THEN <<TRUE, FALSE>>
                  ELSE <<TRUE, TRUE>>

\* classify_website(website) -> <<has_website, direct_ordering>>
classify_website(website) ==
    IF ~Truthy(website)
    THEN <<FALSE, FALSE>>
    ELSE LET parsed == urlparse_netloc(website.v)
         IN  IF parsed.exc # ""
             THEN <<TRUE, FALSE>>
             ELSE IF is_third_party(strip_www(parsed.value))
                  THEN <<TRUE, FALSE>>
                  ELSE <<TRUE, TRUE>>

----------------------------------------------------------------------------
(* read_shops_from_excel *)

\* A missing cell, as pandas reads it
NaN == "NaN"

sheet_names == <<"All", "Multi Location Shops", "OO Partners">>

\* The four columns the loader keeps
Columns == {"ShopID", "AccountName", "BillingCity", "BillingZip"}

\* df.rename(columns={...}): the new name of a column
rename_column(c) ==
    CASE c = "Shop ID" -> "ShopID"
      [] c = "Account Name" -> "AccountName"
      [] c = "Billing City" -> "BillingCity"
      [] c = "Billing Zip/Postal Code" -> "BillingZip"
      [] OTHER -> c

\* df.rename(columns={...}) on a sheet [columns, rows]
rename(df) ==
    LET old(c) == CHOOSE o \in df.columns : rename_column(o) = c
        cols   == {rename_column(o) : o \in df.columns}
    IN  [columns |-> cols,
         rows |-> [i \in 1..Len(df.rows) |-> [c \in cols |-> df.rows[i][old(c)]]]]

\* The list of labels given to df[[...]]: the column when present, else None
selection(df) == {IF c \in df.columns THEN c ELSE "None" : c \in Columns}

\* subset.dropna(how="all")
dropna(rows) == SelectSeq(rows, LAMBDA r : \E c \in DOMAIN r : r[c] # NaN)

\* One pass of the loop over sheet_names for a sheet that is present:
\* rename, df[[...]] (KeyError for a label that is no column), dropna
load_sheet(sheet) ==
    LET df == rename(sheet)
    IN  IF ~(selection(df) \subseteq df.columns)
        THEN [exc |-> "KeyError", value |-> <<>>]
        ELSE [exc |-> "",
              value |-> dropna([i \in 1..Len(df.rows) |->
                                   [c \in selection(df) |-> df.rows[i][c]]])]

\* `if sheet in xls.sheet_names`
sheet_present(xls, sheet) == sheet \in DOMAIN xls

\* The loop over sheet_names from position i on: the list dfs, or the exception
RECURSIVE read_sheets(_, _, _)
read_sheets(xls, i, dfs) ==
    IF i > Len(sheet_names)
    THEN [exc |-> "", value |-> dfs]
    ELSE IF sheet_present(xls, sheet_names[i])
         THEN LET r == load_sheet(xls[sheet_names[i]])
              IN  IF r.exc # ""
                  THEN [exc |-> r.exc, value |-> <<>>]
                  ELSE read_sheets(xls, i + 1, Append(dfs, r.value))
         ELSE read_sheets(xls, i + 1, dfs)

RECURSIVE flatten(_)
flatten(dfs) == IF dfs = <<>> THEN <<>> ELSE Head(dfs) \o flatten(Tail(dfs))

\* pd.concat(dfs, ignore_index=True): ValueError when there is nothing to concatenate
concat(dfs) ==
    IF dfs = <<>>
    THEN [exc |-> "ValueError", value |-> <<>>]
    ELSE [exc |-> "", value |-> flatten(dfs)]

\* drop_duplicates keeping the last row of each AccountName
RECURSIVE drop_duplicates_keep_last(_)
drop_duplicates_keep_last(rows) ==
    IF rows = <<>> THEN <<>>
    ELSE IF \E j \in 2..Len(rows) : rows[j].AccountName = rows[1].AccountName
         THEN drop_duplicates_keep_last(Tail(rows))
         ELSE <<Head(rows)>> \o drop_duplicates_keep_last(Tail(rows))

RECURSIVE drop_seen(_, _)
drop_seen(rows, seen) ==
    IF rows = <<>> THEN <<>>
    ELSE IF Head(rows).AccountName \in seen
         THEN drop_seen(Tail(rows), seen)
         ELSE <<Head(rows)>> \o drop_seen(Tail(rows), seen \cup {Head(rows).AccountName})

\* all_shops.drop_duplicates(subset=["AccountName"]): the first row of each name
drop_duplicates(rows) == drop_seen(rows, {})

\* read_shops_from_excel(xlsx_path): [exc, value]
read_shops_from_excel(xls) ==
    LET dfs == read_sheets(xls, 1, <<>>)
    IN  IF dfs.exc # ""
        THEN dfs
        ELSE LET all_shops == concat(dfs.value)
             IN  IF all_shops.exc # ""
                 THEN all_shops
                 ELSE [exc |-> "", value |-> drop_duplicates(all_shops.value)]

----------------------------------------------------------------------------
(* query_google_places and get_place_details *)

\* What requests.get / raise_for_status / r.json() can do to a call: answer,
\* or raise (network error, HTTP error status, malformed JSON)
Faults == {"ConnectionError", "HTTPError", "JSONDecodeError"}

ChIJ == Str(<<"C", "h", "I", "J">>)

\* Returned value of a function, or the exception it lets escape
Return(x) == [exc |-> "", value |-> x]
Raise(e) == [exc |-> e, value |-> None]

\* Answers of the findplacefromtext endpoint: a fault, or a JSON body with an
\* optional "candidates" list whose entries may lack "place_id"
Candidates == {
    [is_dict |-> TRUE,  has_place_id |-> TRUE,  place_id |-> ChIJ],
    [is_dict |-> TRUE,  has_place_id |-> TRUE,  place_id |-> Str(<<>>)],
    [is_dict |-> TRUE,  has_place_id |-> TRUE,  place_id |-> None],
    [is_dict |-> TRUE,  has_place_id |-> FALSE, place_id |-> None],
    [is_dict |-> FALSE, has_place_id |-> FALSE, place_id |-> None]
}

SearchResponses ==
    {[fault |-> f, has_candidates |-> FALSE, candidates |-> <<>>] : f \in Faults}
    \cup {[fault |-> "", has_candidates |-> FALSE, candidates |-> <<>>]}
    \cup {[fault |-> "", has_candidates |-> TRUE, candidates |-> <<>>]}
    \cup {[fault |-> "", has_candidates |-> TRUE, candidates |-> <<c>>] : c \in Candidates}
    \cup {[fault |-> "", has_candidates |-> TRUE, candidates |-> <<c, d>>] :
              c \in Candidates, d \in {[is_dict |-> TRUE, has_place_id |-> TRUE, place_id |-> ChIJ]}}

\* The body of the try block of query_google_places, with what it raises
query_google_places_try(r) ==
    IF r.fault # ""
    THEN Raise(r.fault)
    ELSE LET candidates == IF r.has_candidates THEN r.candidates ELSE <<>>
         IN  IF candidates # <<>>
             THEN IF ~candidates[1].is_dict
                  THEN Raise("AttributeError")
                  ELSE IF candidates[1].has_place_id
                       THEN Return(candidates[1].place_id)
                       ELSE Return(None)
             ELSE Return(None)

\* A variant without the except clause: the failure escapes
query_google_places_no_except(r) == query_google_places_try(r)

\* query_google_places with its except clause: None on any failure
query_google_places(r) ==
    LET got == query_google_places_try(r)
    IN  IF got.exc # "" THEN Return(None) ELSE got

\* Answers of the details endpoint: a fault, or a JSON body with an optional
\* "result" object (possibly null) with optional "website" and "url"
DetailResponses(websites) ==
    {[fault |-> f, has_result |-> FALSE, result_is_dict |-> FALSE,
      website |-> None, url |-> None] : f \in Faults}
    \cup {[fault |-> "", has_result |-> FALSE, result_is_dict |-> FALSE,
           website |-> None, url |-> None]}
    \cup {[fault |-> "", has_result |-> TRUE, result_is_dict |-> FALSE,
           website |-> None, url |-> None]}
    \cup {[fault |-> "", has_result |-> TRUE, result_is_dict |-> TRUE,
           website |-> w, url |-> u] :
              w \in websites \cup {None},
              u \in {None, Str(<<"h","t","t","p","s",":","/","/","m","a","p","s">>)}}

\* The body of the try block of get_place_details, with what it raises
get_place_details_try(r) ==
    IF r.fault # ""
    THEN Raise(r.fault)
    ELSE IF ~r.has_result
         THEN Return([website |-> None, url |-> None])
         ELSE IF ~r.result_is_dict
              THEN Raise("AttributeError")
              ELSE Return([website |-> r.website, url |-> r.url])

\* get_place_details with its except clause
get_place_details(r) ==
    LET got == get_place_details_try(r)
    IN  IF got.exc # ""
        THEN Return([website |-> None, url |-> None])
        ELSE got

----------------------------------------------------------------------------
(* generate_messages (extended variant) *)

\* str(x) of a cell inside an f-string or a csv field
fstr(x) == IF x = NaN THEN "nan" ELSE x

\* A variant that looks at direct_ordering first
generate_messages_direct_first(account_name, has_website, direct_ordering) ==
    LET salutation == <<"Hi ", fstr(account_name), ",">>
    IN  IF direct_ordering
        THEN [subject |-> "Take your online presence further with Slice\\u2019s marketing & POS",
              body |-> salutation \o <<"\n\n", "Great job having your own direct ordering! Slice can help you go even further with advanced advertising services, a powerful owner\\u2019s app, and a POS built for pizzerias. We also host pizzeria\\u2011owner events and provide industry reports to help you stay ahead.">>,
              sms |-> <<fstr(account_name), ": You\\u2019re already direct\\u2014let\\u2019s accelerate growth. Slice offers marketing, a custom POS, and owner resources just for pizzerias.">>]
        ELSE IF has_website
        THEN [subject |-> "Boost profits with direct ordering and discounted delivery",
              body |-> salutation \o <<"\n\n", "It looks like your current website relies on third\\u2011party ordering apps. Slice lets you own the entire ordering experience with direct online and phone ordering. We provide integrated discounted delivery and a POS designed specifically for independent pizzerias, so you keep more margin and delight your customers.">>,
              sms |-> <<fstr(account_name), ": Let\\u2019s get you off third\\u2011party apps. Slice offers direct online/phone ordering with discounted delivery and a pizzeria\\u2011specific POS.">>]
        ELSE [subject |-> "Grow your pizzeria with a custom website and phone ordering",
              body |-> salutation \o <<"\n\n", "I noticed your pizzeria doesn\\u2019t have a website listed online. With Slice, you can get a tailor\\u2011made website and a phone ordering solution that puts you in control of your customer relationships. Our platform even offers discounted delivery and a pizzeria\\u2011specific POS system to help you run your business more smoothly.">>,
              sms |-> <<fstr(account_name), ": We can build you a custom website and phone ordering solution through Slice, plus discounted delivery and a POS built for pizzerias.">>]

\* generate_messages(account_name, has_website, direct_ordering): the texts are
\* sequences of the pieces the f-strings join; a character outside ASCII is
\* written \uXXXX
generate_messages(account_name, has_website, direct_ordering) ==
    LET salutation == <<"Hi ", fstr(account_name), ",">>
    IN  IF ~has_website
        THEN [subject |-> "Grow your pizzeria with a custom website and phone ordering",
              body |-> salutation \o <<"\n\n", "I noticed your pizzeria doesn\\u2019t have a website listed online. With Slice, you can get a tailor\\u2011made website and a phone ordering solution that puts you in control of your customer relationships. Our platform even offers discounted delivery and a pizzeria\\u2011specific POS system to help you run your business more smoothly.">>,
              sms |-> <<fstr(account_name), ": We can build you a custom website and phone ordering solution through Slice, plus discounted delivery and a POS built for pizzerias.">>]
        ELSE IF has_website /\ ~direct_ordering
        THEN [subject |-> "Boost profits with direct ordering and discounted delivery",
              body |-> salutation \o <<"\n\n", "It looks like your current website relies on third\\u2011party ordering apps. Slice lets you own the entire ordering experience with direct online and phone ordering. We provide integrated discounted delivery and a POS designed specifically for independent pizzerias, so you keep more margin and delight your customers.">>,
              sms |-> <<fstr(account_name), ": Let\\u2019s get you off third\\u2011party apps. Slice offers direct online/phone ordering with discounted delivery and a pizzeria\\u2011specific POS.">>]
        ELSE [subject |-> "Take your online presence further with Slice\\u2019s marketing & POS",
              body |-> salutation \o <<"\n\n", "Great job having your own direct ordering! Slice can help you go even further with advanced advertising services, a powerful owner\\u2019s app, and a POS built for pizzerias. We also host pizzeria\\u2011owner events and provide industry reports to help you stay ahead.">>,
              sms |-> <<fstr(account_name), ": You\\u2019re already direct\\u2014let\\u2019s accelerate growth. Slice offers marketing, a custom POS, and owner resources just for pizzerias.">>]

----------------------------------------------------------------------------
(* csv output *)

HEADER1 == <<"ShopID", "AccountName", "BillingCity", "BillingZip",
             "Website", "HasWebsite", "DirectOrdering", "Note">>
HEADER2 == <<"ShopID", "AccountName", "EmailSubject", "EmailBody", "SmsBody">>

\* A file that has not been created
NoFile == [header |-> <<>>, rows |-> <<>>]

\* csv.writer's rendering of a value: None is the empty field, a bool its name
csv_str(x) == IF x.t = "None" THEN <<>> ELSE x.v
csv_bool(b) == IF b THEN "True" ELSE "False"

\* writer.writerow of a classification row
csv_row(row) ==
    [ShopID |-> fstr(row.ShopID), AccountName |-> fstr(row.AccountName),
     BillingCity |-> fstr(row.BillingCity), BillingZip |-> fstr(row.BillingZip),
     Website |-> csv_str(row.Website), HasWebsite |-> csv_bool(row.HasWebsite),
     DirectOrdering |-> csv_bool(row.DirectOrdering), Note |-> row.Note]

\* writer.writerow of a message row
csv_message(m) ==
    [ShopID |-> fstr(m.ShopID), AccountName |-> fstr(m.AccountName),
     EmailSubject |-> m.EmailSubject, EmailBody |-> m.EmailBody, SmsBody |-> m.SmsBody]

\* writer.writerows(rows)
csv_rows(rows) == [i \in 1..Len(rows) |-> csv_row(rows[i])]
csv_messages(rows) == [i \in 1..Len(rows) |-> csv_message(rows[i])]

----------------------------------------------------------------------------
(* The inputs the runs are checked on *)

\* Rows of a workbook per run of the batch loop, of the loader alone, and the
\* number of prefix pieces in front of a domain
MaxRunRows == 2
MaxRows == 3
MaxPrefix == 1

\* Websites the details endpoint answers with in the batch runs
RunWebsites == {
    Str(<<>>),
    Str(<<"h","t","t","p","s",":","/","/","w","w","w",".","d","o","o","r","d","a","s","h",".","c","o","m","/","s","t","o","r","e","/","1","2","3">>),
    Str(<<"h","t","t","p","s",":","/","/","o","r","d","e","r",".","t","o","n","y","s","p","i","z","z","a",".","c","o","m">>),
    Str(<<"h","t","t","p",":","/","/","[","t","o","n","y","s","p","i","z","z","a",".","c","o","m","/">>)
}

\* Spreadsheet rows, by canonical column (and a column the loader discards)
RowTony1 == [ShopID |-> "S1", AccountName |-> "Tony's Pizza", BillingCity |-> "Boston",
             BillingZip |-> "02108", Phone |-> "555"]
RowTony2 == [ShopID |-> "S2", AccountName |-> "Tony's Pizza", BillingCity |-> NaN,
             BillingZip |-> NaN, Phone |-> NaN]
RowLuigi == [ShopID |-> "S3", AccountName |-> "Luigi's", BillingCity |-> "Quincy",
             BillingZip |-> "02169", Phone |-> NaN]
RowEmpty == [ShopID |-> NaN, AccountName |-> NaN, BillingCity |-> NaN,
             BillingZip |-> NaN, Phone |-> "555"]
RowNoName == [ShopID |-> "S4", AccountName |-> NaN, BillingCity |-> "Salem",
              BillingZip |-> NaN, Phone |-> NaN]

RowTonys == [ShopID |-> "S5", AccountName |-> "Tony's", BillingCity |-> "Lynn",
             BillingZip |-> "01901", Phone |-> NaN]

RunRows == {RowTony1, RowTony2, RowLuigi}
ComposeRows == {RowTony1, RowTony2, RowLuigi, RowNoName, RowTonys}
LoadRows == {RowTony1, RowTony2, RowLuigi, RowEmpty, RowNoName}

\* Header rows of a sheet: the source names, with an extra column, already
\* canonical, and with the zip column missing
SourceHeader == {"Shop ID", "Account Name", "Billing City", "Billing Zip/Postal Code"}
RunHeaders == {SourceHeader}
LoadHeaders == {SourceHeader \cup {"Phone"},
                {"ShopID", "AccountName", "BillingCity", "BillingZip"},
                SourceHeader \ {"Billing Zip/Postal Code"}}

\* A sheet that the workbook does not have
Absent == [present |-> FALSE, columns |-> {}, rows |-> <<>>]

\* The sheets with min to max rows drawn from rowset, and the absent one
SheetOptions(headers, rowset, min, max) ==
    {Absent} \cup
    UNION {{[present |-> TRUE, columns |-> h,
             rows |-> [i \in 1..n |-> [c \in h |-> rs[i][rename_column(c)]]]] :
                h \in headers, rs \in [1..n -> rowset]} : n \in min..max}

\* The workbook holding the present ones of the three sheets
Workbook(all, multi, oo) ==
    LET opt == <<all, multi, oo>>
        at  == {i \in 1..Len(sheet_names) : opt[i].present}
    IN  [s \in {sheet_names[i] : i \in at} |->
            LET i == CHOOSE k \in at : sheet_names[k] = s
            IN  [columns |-> opt[i].columns, rows |-> opt[i].rows]]

\* input_file is a workbook of at most max rows in all; the second and third
\* sheet, when present, have at least min rows
InitWorkbook(headers, rowset, min, max) ==
    \E all \in SheetOptions(headers, rowset, 0, max) :
    \E multi \in SheetOptions(headers, rowset, min, max - Len(all.rows)) :
    \E oo \in SheetOptions(headers, rowset, min, max - Len(all.rows) - Len(multi.rows)) :
        input_file = Workbook(all, multi, oo)

\* Websites given to classify_website alone: scheme, user, prefix pieces, domain,
\* port, path
Schemes == {<<>>, <<"/","/">>, <<"h","t","t","p","s",":","/","/">>, <<"H","T","T","P","S",":","/","/">>}
UserInfos == {<<>>, <<"u","s","e","r","@">>}
PrefixPieces == {<<"w","w","w",".">>, <<"W","W","W",".">>, <<"w">>, <<".">>, <<"o","r","d","e","r",".">>, <<"n","o","t">>, <<"[">>}
Domains == THIRD_PARTY_DOMAINS \cup {
    <<"D","o","o","r","D","a","s","h",".","c","o","m">>,
    <<"G","r","u","b","H","u","b",".","C","O","M">>,
    <<"t","o","n","y","s","p","i","z","z","a",".","c","o","m">>,
    <<"w","w","w","a","b","c",".","c","o","m">>,
    <<"d","o","o","r","d","a","s","h",".","c","o">>,
    <<"d","o","o","r","d","a","s","h",".","c","o","m",".","m","x">>
}
Ports == {<<>>, <<":","4","4","3">>}
Paths == {<<>>, <<"/","s","t","o","r","e","/","1","2","3">>, <<"?","r","e","f","=","d","o","o","r","d","a","s","h",".","c","o","m">>}

Prefixes == UNION {{flatten(ps) : ps \in [1..n -> PrefixPieces]} : n \in 0..MaxPrefix}

ClassifyInputs ==
    {None, Str(<<>>), Str(<<" ">>)} \cup
    {Str(sc \o ui \o px \o dm \o pt \o pa) :
        sc \in Schemes, ui \in UserInfos, px \in Prefixes, dm \in Domains,
        pt \in Ports, pa \in Paths}

----------------------------------------------------------------------------
(* analyse_shops *)

NOTE_NO_KEY == "API key not provided"
NOTE_NOT_FOUND == "Place not found"
NOTE_NO_WEBSITE == "No website"
\* The hyphen of the source is U+2011 NON-BREAKING HYPHEN
NOTE_THIRD_PARTY == "Website appears to be third\\u2011party ordering"

Base == variant = "shop_analysis"

\* A variant that tests `api_key is not None`
has_api_key_is_not_none == api_key.t = "str"

\* A variant without the `if api_key: time.sleep(0.2)` at the end of the loop body
has_api_key_no_pacing == Truthy(api_key) /\ pc # "emit"

\* `if api_key:`
has_api_key == Truthy(api_key)

\* A variant that tests `place_id is not None`
place_found_is_not_none(p) == p.t = "str"

\* `if place_id:`
place_found(p) == Truthy(p)

\* The list handed to writer.writerow / classifications.append for the current row
current_row ==
    [ShopID |-> shops_df[idx].ShopID, AccountName |-> shops_df[idx].AccountName,
     BillingCity |-> shops_df[idx].BillingCity, BillingZip |-> shops_df[idx].BillingZip,
     Website |-> website_url, HasWebsite |-> has_site, DirectOrdering |-> direct,
     Note |-> note]

\* A variant that passes the two flags to generate_messages in the wrong order
current_message_flags_swapped ==
    LET m == generate_messages(shops_df[idx].AccountName, direct, has_site)
    IN  [ShopID |-> shops_df[idx].ShopID, AccountName |-> shops_df[idx].AccountName,
         EmailSubject |-> m.subject, EmailBody |-> m.body, SmsBody |-> m.sms]

\* The list handed to messages.append for the current row
current_message ==
    LET m == generate_messages(shops_df[idx].AccountName, has_site, direct)
    IN  [ShopID |-> shops_df[idx].ShopID, AccountName |-> shops_df[idx].AccountName,
         EmailSubject |-> m.subject, EmailBody |-> m.body, SmsBody |-> m.sms]

\* A variant without the `elif not direct` branch
note_for_no_elif(has, dir) == IF ~has THEN NOTE_NO_WEBSITE ELSE ""

\* The note of a row whose place was found
note_for(has, dir) ==
    IF ~has THEN NOTE_NO_WEBSITE
    ELSE IF ~dir THEN NOTE_THIRD_PARTY
    ELSE ""

\* api_key = os.getenv(...); shops_df = read_shops_from_excel(input_file)
ReadShops ==
    /\ pc = "start"
    /\ LET r == read_shops_from_excel(input_file)
       IN  IF r.exc # ""
           THEN /\ pc' = "raised"
                /\ UNCHANGED shops_df
           ELSE /\ shops_df' = r.value
                /\ pc' = IF Base THEN "open" ELSE "row"
    /\ UNCHANGED <<variant, api_key, input_file, message_output_file, idx, place_id,
                   website_url, has_site, direct, note, details, classifications,
                   messages, output_csv, messages_csv, events>>

\* shop_analysis: open(output_file, "w") and the header row
OpenOutput ==
    /\ pc = "open"
    /\ output_csv' = [header |-> HEADER1, rows |-> <<>>]
    /\ pc' = "row"
    /\ UNCHANGED <<variant, api_key, input_file, message_output_file, shops_df, idx,
                   place_id, website_url, has_site, direct, note, details,
                   classifications, messages, messages_csv, events>>

\* Top of the loop body: the locals, and the branch on api_key
BeginRow ==
    /\ pc = "row"
    /\ idx <= Len(shops_df)
    /\ website_url' = None
    /\ has_site' = FALSE
    /\ direct' = FALSE
    /\ place_id' = None
    /\ details' = [website |-> None, url |-> None]
    /\ IF has_api_key
       THEN note' = "" /\ pc' = "search"
       ELSE note' = NOTE_NO_KEY /\ pc' = "emit"
    /\ UNCHANGED <<variant, api_key, input_file, message_output_file, shops_df, idx,
                   classifications, messages, output_csv, messages_csv, events>>

\* place_id = query_google_places(api_key, query), and the branch on it
QueryGooglePlaces ==
    /\ pc = "search"
    /\ \E r \in SearchResponses :
          LET got == query_google_places(r)
          IN  /\ events' = Append(events, [ev |-> "findplacefromtext", idx |-> idx,
                                           failed |-> r.fault # ""])
              /\ IF got.exc # ""
                 THEN pc' = "raised" /\ UNCHANGED <<place_id, note>>
                 ELSE /\ place_id' = got.value
                      /\ IF place_found(got.value)
                         THEN pc' = "details" /\ UNCHANGED note
                         ELSE pc' = "emit" /\ note' = NOTE_NOT_FOUND
    /\ UNCHANGED <<variant, api_key, input_file, message_output_file, shops_df, idx,
                   website_url, has_site, direct, details, classifications, messages,
                   output_csv, messages_csv>>

\* details = get_place_details(api_key, place_id); classification and note
GetPlaceDetails ==
    /\ pc = "details"
    /\ \E r \in DetailResponses(RunWebsites) :
          LET got == get_place_details(r)
          IN  /\ events' = Append(events, [ev |-> "details", idx |-> idx,
                                           failed |-> r.fault # ""])
              /\ IF got.exc # ""
                 THEN /\ pc' = "raised"
                      /\ UNCHANGED <<details, website_url, has_site, direct, note>>
                 ELSE LET c == classify_website(got.value.website)
                      IN  /\ details' = got.value
                          /\ website_url' = got.value.website
                          /\ has_site' = c[1]
                          /\ direct' = c[2]
                          /\ note' = note_for(c[1], c[2])
                          /\ pc' = "emit"
    /\ UNCHANGED <<variant, api_key, input_file, message_output_file, shops_df, idx,
                   place_id, classifications, messages, output_csv, messages_csv>>

\* writer.writerow (shop_analysis); classifications.append, generate_messages and
\* messages.append (extended_analysis)
WriteRow ==
    /\ pc = "emit"
    /\ IF Base
       THEN /\ output_csv' = [output_csv EXCEPT !.rows = Append(@, csv_row(current_row))]
            /\ UNCHANGED <<classifications, messages>>
       ELSE /\ classifications' = Append(classifications, current_row)
            /\ messages' = Append(messages, current_message)
            /\ UNCHANGED output_csv
    /\ events' = Append(events, [ev |-> "row", idx |-> idx, failed |-> FALSE])
    /\ IF has_api_key
       THEN pc' = "sleep" /\ UNCHANGED idx
       ELSE pc' = "row" /\ idx' = idx + 1
    /\ UNCHANGED <<variant, api_key, input_file, message_output_file, shops_df,
                   place_id, website_url, has_site, direct, note, details, messages_csv>>

\* time.sleep(0.2) when api_key is set
Sleep ==
    /\ pc = "sleep"
    /\ events' = Append(events, [ev |-> "sleep", idx |-> idx, failed |-> FALSE])
    /\ idx' = idx + 1
    /\ pc' = "row"
    /\ UNCHANGED <<variant, api_key, input_file, message_output_file, shops_df,
                   place_id, website_url, has_site, direct, note, details,
                   classifications, messages, output_csv, messages_csv>>

\* The loop is exhausted
EndLoop ==
    /\ pc = "row"
    /\ idx > Len(shops_df)
    /\ pc' = IF Base THEN "done" ELSE "write_output"
    /\ UNCHANGED <<variant, api_key, input_file, message_output_file, shops_df, idx,
                   place_id, website_url, has_site, direct, note, details,
                   classifications, messages, output_csv, messages_csv, events>>

\* extended_analysis: write the classifications file
WriteClassifications ==
    /\ pc = "write_output"
    /\ output_csv' = [header |-> HEADER1, rows |-> csv_rows(classifications)]
    /\ pc' = IF Truthy(message_output_file) THEN "write_messages" ELSE "done"
    /\ UNCHANGED <<variant, api_key, input_file, message_output_file, shops_df, idx,
                   place_id, website_url, has_site, direct, note, details,
                   classifications, messages, messages_csv, events>>

\* extended_analysis: write the messages file when --messages was given
WriteMessages ==
    /\ pc = "write_messages"
    /\ messages_csv' = [header |-> HEADER2, rows |-> csv_messages(messages)]
    /\ pc' = "done"
    /\ UNCHANGED <<variant, api_key, input_file, message_output_file, shops_df, idx,
                   place_id, website_url, has_site, direct, note, details,
                   classifications, messages, output_csv, events>>

Next ==
    \/ ReadShops
    \/ OpenOutput
    \/ BeginRow
    \/ QueryGooglePlaces
    \/ GetPlaceDetails
    \/ WriteRow
    \/ Sleep
    \/ EndLoop
    \/ WriteClassifications
    \/ WriteMessages

\* Variables that a run has not touched yet
Untouched ==
    /\ shops_df = <<>>
    /\ idx = 1
    /\ place_id = None
    /\ website_url = None
    /\ has_site = FALSE
    /\ direct = FALSE
    /\ note = ""
    /\ details = [website |-> None, url |-> None]
    /\ classifications = <<>>
    /\ messages = <<>>
    /\ output_csv = NoFile
    /\ messages_csv = NoFile
    /\ events = <<>>

\* A run of either script: the workbook, the environment and the arguments
Init ==
    /\ variant \in {"shop_analysis", "extended_analysis"}
    /\ api_key \in {None, Str(<<>>), Str(<<"k", "e", "y">>)}
    /\ message_output_file \in
          IF Base THEN {None} ELSE {None, Str(<<"m", ".", "c", "s", "v">>)}
    /\ InitWorkbook(RunHeaders, RunRows, 1, MaxRunRows)
    /\ pc = "start"
    /\ Untouched

Spec == Init /\ [][Next]_vars

\* The loader alone, on workbooks with missing columns, empty rows and rows
\* without a name
InitLoad ==
    /\ variant = "shop_analysis"
    /\ api_key = None
    /\ message_output_file = None
    /\ InitWorkbook(LoadHeaders, LoadRows, 0, MaxRows)
    /\ pc = "start"
    /\ Untouched

SpecLoad == InitLoad /\ [][ReadShops]_vars

\* has_site, direct = classify_website(website_url)
Classify ==
    /\ pc = "classify"
    /\ LET c == classify_website(website_url)
       IN  has_site' = c[1] /\ direct' = c[2]
    /\ pc' = "classified"
    /\ UNCHANGED <<variant, api_key, input_file, message_output_file, shops_df, idx,
                   place_id, website_url, note, details, classifications, messages,
                   output_csv, messages_csv, events>>

\* The classifier alone, on one website
InitClassify ==
    /\ variant = "shop_analysis"
    /\ api_key = None
    /\ message_output_file = None
    /\ input_file = Workbook(Absent, Absent, Absent)
    /\ pc = "classify"
    /\ shops_df = <<>>
    /\ idx = 1
    /\ place_id = None
    /\ website_url \in ClassifyInputs
    /\ has_site = FALSE
    /\ direct = FALSE
    /\ note = ""
    /\ details = [website |-> None, url |-> None]
    /\ classifications = <<>>
    /\ messages = <<>>
    /\ output_csv = NoFile
    /\ messages_csv = NoFile
    /\ events = <<>>

SpecClassify == InitClassify /\ [][Classify]_vars

\* subject, body, sms = generate_messages(row["AccountName"], has_site, direct)
\* and messages.append([...])
Compose ==
    /\ pc = "compose"
    /\ messages' = Append(messages, current_message)
    /\ pc' = "composed"
    /\ UNCHANGED <<variant, api_key, input_file, message_output_file, shops_df, idx,
                   place_id, website_url, has_site, direct, note, details,
                   classifications, output_csv, messages_csv, events>>

\* The composer alone, on a row of a loaded sheet and any pair of flags
InitCompose ==
    /\ variant = "extended_analysis"
    /\ api_key = None
    /\ message_output_file = Str(<<"m", ".", "c", "s", "v">>)
    /\ \E all \in SheetOptions(RunHeaders, ComposeRows, 1, MaxRunRows) \ {Absent} :
          /\ input_file = Workbook(all, Absent, Absent)
          /\ shops_df = read_shops_from_excel(Workbook(all, Absent, Absent)).value
    /\ idx \in 1..Len(shops_df)
    /\ pc = "compose"
    /\ place_id = None
    /\ website_url = None
    /\ has_site \in BOOLEAN
    /\ direct \in BOOLEAN
    /\ note = ""
    /\ details = [website |-> None, url |-> None]
    /\ classifications = <<>>
    /\ messages = <<>>
    /\ output_csv = NoFile
    /\ messages_csv = NoFile
    /\ events = <<>>

SpecCompose == InitCompose /\ [][Compose]_vars

----------------------------------------------------------------------------
(* Properties *)

\* The rows emitted so far, as they are (or will be) written to output file 1
written == IF Base THEN output_csv.rows ELSE csv_rows(classifications)

CallEvents == {"findplacefromtext", "details"}

\* Entity i had a call of the given kind
Called(kind, i) == \E k \in 1..Len(events) : events[k].ev = kind /\ events[k].idx = i

\* C1: every row that is emitted, in either script and whatever the lookups
\* answer, has DirectOrdering => HasWebsite: the row about to be written, the
\* rows held in memory and the rows in output file 1.
C1_DirectImpliesHasWebsite ==
    /\ pc = "emit" => (current_row.DirectOrdering => current_row.HasWebsite)
    /\ \A i \in 1..Len(classifications) :
          classifications[i].DirectOrdering => classifications[i].HasWebsite
    /\ \A i \in 1..Len(output_csv.rows) :
          output_csv.rows[i].DirectOrdering = "True" => output_csv.rows[i].HasWebsite = "True"

\* A finished run whose file has a direct-ordering row and a third-party row
C1_Witness ==
    /\ pc = "done"
    /\ \E i, j \in 1..Len(output_csv.rows) :
          /\ output_csv.rows[i].DirectOrdering = "True"
          /\ output_csv.rows[j].HasWebsite = "True"
          /\ output_csv.rows[j].DirectOrdering = "False"

\* urlparse(website).hostname: the netloc without user info and port, lower-cased
hostname(netloc) ==
    LET ats      == {i \in 1..Len(netloc) : netloc[i] = "@"}
        hostinfo == IF ats = {} THEN netloc
                    ELSE SubSeq(netloc, (CHOOSE i \in ats : \A j \in ats : j <= i) + 1, Len(netloc))
        colon    == find(hostinfo, ":", 1)
    IN  lower(IF colon = 0 THEN hostinfo ELSE SubSeq(hostinfo, 1, colon - 1))

\* The website is a string that urlparse accepts
Parseable(website) == website.t = "str" /\ urlparse_netloc(website.v).exc = ""

\* The host of the website ends with an aggregator domain
HostIsAggregator(website) ==
    \E third \in THIRD_PARTY_DOMAINS :
        endswith(hostname(urlparse_netloc(website.v).value), third)

\* C2: a website whose host ends with an aggregator domain (any case, with or
\* without "www.") is classified (has_website, direct_ordering) = (TRUE, FALSE).
C2_AggregatorHostIsThirdParty ==
    (pc = "classified" /\ Parseable(website_url) /\ HostIsAggregator(website_url))
        => (has_site /\ ~direct)

\* C3: a non-empty website that parses and whose host does not end with an
\* aggregator domain is classified (TRUE, TRUE).
C3_OtherHostIsDirect ==
    (pc = "classified" /\ Truthy(website_url) /\ Parseable(website_url)
        /\ ~HostIsAggregator(website_url))
        => (has_site /\ direct)

\* https://order.tonyspizza.com has been classified as direct
C3_Witness ==
    /\ pc = "classified"
    /\ website_url = Str(<<"h","t","t","p","s",":","/","/","o","r","d","e","r",".","t","o","n","y","s","p","i","z","z","a",".","c","o","m">>)
    /\ ~HostIsAggregator(website_url)
    /\ has_site /\ direct

\* C4: with GOOGLE_API_KEY unset or empty, no search call and no detail call is
\* ever made, every emitted row has no website, HasWebsite and DirectOrdering
\* false and the note "API key not provided", and a finished run has one such
\* row for every loaded entity.
C4_OfflineMode ==
    (api_key = None \/ api_key = Str(<<>>)) =>
        /\ \A k \in 1..Len(events) : events[k].ev \notin CallEvents
        /\ pc = "emit" =>
              /\ current_row.Website = None
              /\ ~current_row.HasWebsite /\ ~current_row.DirectOrdering
              /\ current_row.Note = "API key not provided"
        /\ \A i \in 1..Len(written) :
              /\ written[i].Website = <<>>
              /\ written[i].HasWebsite = "False"
              /\ written[i].DirectOrdering = "False"
              /\ written[i].Note = "API key not provided"
        /\ pc = "done" => Len(output_csv.rows) = Len(shops_df)

\* A finished run with an empty key that wrote the rows of two entities
C4_Witness ==
    /\ pc = "done"
    /\ api_key = Str(<<>>)
    /\ Len(shops_df) = 2
    /\ Len(output_csv.rows) = 2
    /\ output_csv.rows[2].Note = "API key not provided"

\* C5: a detail call comes directly after the search call of the same entity,
\* and only when that search returned a place id; an entity whose search
\* returned none has no detail call, and its row has no website, both flags
\* false and the note "Place not found".
C5_DetailOnlyAfterFoundSearch ==
    /\ \A k \in 1..Len(events) :
          events[k].ev = "details" =>
              /\ k > 1
              /\ events[k - 1].ev = "findplacefromtext"
              /\ events[k - 1].idx = events[k].idx
    /\ pc = "details" => Truthy(place_id)
    /\ (pc \in {"emit", "sleep"} /\ Called("details", idx)) => Truthy(place_id)
    /\ (pc \in {"emit", "sleep"} /\ Called("findplacefromtext", idx) /\ ~Truthy(place_id)) =>
          /\ ~Called("details", idx)
          /\ current_row.Website = None
          /\ ~current_row.HasWebsite /\ ~current_row.DirectOrdering
          /\ current_row.Note = "Place not found"
    /\ \A i \in 1..Len(written) :
          (Called("findplacefromtext", i) /\ ~Called("details", i)) =>
              /\ written[i].Website = <<>>
              /\ written[i].HasWebsite = "False"
              /\ written[i].DirectOrdering = "False"
              /\ written[i].Note = "Place not found"
    /\ \A i \in 1..Len(written) :
          Called("details", i) => written[i].Note # "Place not found"

\* A finished run whose first entity was not found (no detail call) and whose
\* second entity was found and looked up
C5_Witness ==
    /\ pc = "done"
    /\ Len(written) = 2
    /\ Called("findplacefromtext", 1) /\ ~Called("details", 1)
    /\ written[1].Note = "Place not found"
    /\ Called("findplacefromtext", 2) /\ Called("details", 2)

\* The cell of row i of a sheet under the header that is renamed to column c
Cell(sheet, i, c) == sheet.rows[i][CHOOSE h \in sheet.columns : rename_column(h) = c]

\* The rows of a sheet over the four columns, none for a sheet that is absent
SheetRows(xls, name) ==
    IF name \in DOMAIN xls
    THEN [i \in 1..Len(xls[name].rows) |-> [c \in Columns |-> Cell(xls[name], i, c)]]
    ELSE <<>>

\* The rows of "All", "Multi Location Shops", "OO Partners", in that order,
\* without the rows whose four cells are all empty
AllRows(xls) ==
    SelectSeq(SheetRows(xls, "All") \o SheetRows(xls, "Multi Location Shops")
                  \o SheetRows(xls, "OO Partners"),
              LAMBDA r : \E c \in Columns : r[c] # NaN)

\* The positions of the rows that are the first with their display name
FirstSeen(rows) ==
    {i \in 1..Len(rows) : \A j \in 1..(i - 1) : rows[j].AccountName # rows[i].AccountName}

\* The loader has returned
Loaded == pc \notin {"start", "raised"}

\* C6: what read_shops_from_excel returns is the concatenation of the three
\* sheets (sheet order, row order, all-empty rows dropped) cut down to the first
\* row of each display name, in first-seen order; its display names are
\* pairwise distinct.
C6_FirstOccurrenceInOrder ==
    Loaded =>
        LET cat   == AllRows(input_file)
            first == FirstSeen(cat)
        IN  /\ Len(shops_df) = Cardinality(first)
            /\ \A k \in 1..Len(shops_df) :
                  \E i \in first :
                      /\ Cardinality({j \in first : j < i}) = k - 1
                      /\ shops_df[k] = cat[i]
            /\ \A k, l \in 1..Len(shops_df) :
                  k # l => shops_df[k].AccountName # shops_df[l].AccountName

\* Two rows in "All" and a later sheet repeating the name of the first row:
\* the repeat is dropped and the two first rows survive in order
C6_Witness ==
    /\ Loaded
    /\ Len(SheetRows(input_file, "All")) = 2
    /\ Len(AllRows(input_file)) = 3
    /\ AllRows(input_file)[3].AccountName = AllRows(input_file)[1].AccountName
    /\ AllRows(input_file)[3] # AllRows(input_file)[1]
    /\ Len(shops_df) = 2
    /\ shops_df[1] = AllRows(input_file)[1]

\* Every sheet the workbook has carries the four columns
FullColumns(xls) ==
    \A name \in DOMAIN xls : Columns \subseteq {rename_column(h) : h \in xls[name].columns}

\* C7: whichever of the three sheets the workbook has, none of them included,
\* the loader skips the absent ones and returns without raising.
C7_AbsentSheetsAreSkipped ==
    FullColumns(input_file) => pc # "raised"

\* C8: when a run completes, output file 1 has one row per loaded entity in
\* load order, row i carrying the entity's four fields; with a messages
\* destination, output file 2 has one row per entity, row i with the ShopID and
\* AccountName of row i of file 1 and the message composed from that row's
\* HasWebsite and DirectOrdering.
C8_FilesAlignedWithEntities ==
    pc = "done" =>
        /\ Len(output_csv.rows) = Len(shops_df)
        /\ \A i \in 1..Len(output_csv.rows) :
              /\ output_csv.rows[i].ShopID = fstr(shops_df[i].ShopID)
              /\ output_csv.rows[i].AccountName = fstr(shops_df[i].AccountName)
              /\ output_csv.rows[i].BillingCity = fstr(shops_df[i].BillingCity)
              /\ output_csv.rows[i].BillingZip = fstr(shops_df[i].BillingZip)
        /\ (~Base /\ Truthy(message_output_file)) =>
              /\ Len(messages_csv.rows) = Len(shops_df)
              /\ \A i \in 1..Len(messages_csv.rows) :
                    LET m == generate_messages(shops_df[i].AccountName,
                                               output_csv.rows[i].HasWebsite = "True",
                                               output_csv.rows[i].DirectOrdering = "True")
                    IN  /\ messages_csv.rows[i].ShopID = output_csv.rows[i].ShopID
                        /\ messages_csv.rows[i].AccountName = output_csv.rows[i].AccountName
                        /\ messages_csv.rows[i].EmailSubject = m.subject
                        /\ messages_csv.rows[i].EmailBody = m.body
                        /\ messages_csv.rows[i].SmsBody = m.sms

\* A finished extended run with a messages file of two rows, the first for a
\* third-party website and the second for a direct one
C8_Witness ==
    /\ pc = "done"
    /\ ~Base
    /\ Len(messages_csv.rows) = 2
    /\ output_csv.rows[1].HasWebsite = "True" /\ output_csv.rows[1].DirectOrdering = "False"
    /\ output_csv.rows[2].DirectOrdering = "True"
    /\ messages_csv.rows[1].EmailSubject # messages_csv.rows[2].EmailSubject

\* Entity i had a call of the given kind that failed in transport or parsing
Failed(kind, i) ==
    \E k \in 1..Len(events) : events[k].ev = kind /\ events[k].idx = i /\ events[k].failed

\* How far the run is: every step of analyse_shops moves it forward
Progress ==
    LET n == Len(shops_df)
    IN  CASE pc = "start" -> 0
          [] pc = "classify" -> 0
          [] pc = "classified" -> 1
          [] pc = "open" -> 1
          [] pc = "row" -> 5 * idx
          [] pc = "search" -> 5 * idx + 1
          [] pc = "details" -> 5 * idx + 2
          [] pc = "emit" -> 5 * idx + 3
          [] pc = "sleep" -> 5 * idx + 4
          [] pc = "write_output" -> 5 * n + 6
          [] pc = "write_messages" -> 5 * n + 7
          [] pc = "done" -> 5 * n + 8
          [] pc = "raised" -> 5 * n + 9

\* What C9 says of every state of a run
NoAbortByFailure ==
    /\ \A r \in SearchResponses : r.fault # "" => query_google_places(r) = Return(None)
    /\ \A r \in DetailResponses(RunWebsites) :
          r.fault # "" => get_place_details(r) = Return([website |-> None, url |-> None])
    /\ pc = "raised" => events = <<>>
    /\ pc \in {"start", "open", "row", "search", "details", "emit", "sleep",
               "write_output", "write_messages", "done", "raised"}
    /\ Progress <= 5 * Len(shops_df) + 9
    /\ pc = "done" => Len(output_csv.rows) = Len(shops_df)
    /\ \A i \in 1..Len(written) :
          /\ Failed("findplacefromtext", i) => written[i].Note = "Place not found"
          /\ Failed("details", i) =>
                written[i].HasWebsite = "False" /\ written[i].DirectOrdering = "False"

\* C9: no failure of a search or detail call aborts the run: on a failure
\* query_google_places returns None and get_place_details returns website and
\* url both None, nothing is raised once a call has been made, every step
\* moves the run forward towards its bounded end, and a finished run has a row
\* for every loaded entity; the row of a failed search has the note "Place not
\* found", the row of a failed detail call has HasWebsite and DirectOrdering
\* false.
C9_FailuresNeverAbort ==
    /\ []NoAbortByFailure
    /\ [][Progress' > Progress]_vars

\* A finished run whose first entity had a failed search and whose second
\* entity had a failed detail call
C9_Witness ==
    /\ pc = "done"
    /\ Len(output_csv.rows) = 2
    /\ Failed("findplacefromtext", 1)
    /\ Failed("details", 2)
    /\ output_csv.rows[2].Note = "No website"

\* The relation of C10 between a note and the two flags, for a given spelling
\* of the third-party note
NoteMatches(n, has, dir, third_party_note) ==
    /\ (n = third_party_note) <=> (has /\ ~dir)
    /\ (n = "") <=> (has /\ dir)
    /\ (n = "No website") <=> (~has /\ ~dir)

\* The statement of C10 for a given spelling of the third-party note
NoteFollowsClassification(third_party_note) ==
    /\ (pc \in {"emit", "sleep"} /\ Called("details", idx)) =>
          /\ <<has_site, direct>> = classify_website(details.website)
          /\ NoteMatches(note, has_site, direct, third_party_note)
          /\ (note = "No website") <=> ~Truthy(details.website)
          /\ website_url = details.website
          /\ details.website = Str(<<"h","t","t","p","s",":","/","/","w","w","w",".","d","o","o","r","d","a","s","h",".","c","o","m","/","s","t","o","r","e","/","1","2","3">>) =>
                (has_site /\ ~direct /\ note = third_party_note)
          /\ details.website = Str(<<"h","t","t","p",":","/","/","[","t","o","n","y","s","p","i","z","z","a",".","c","o","m","/">>) =>
                (has_site /\ ~direct /\ note = third_party_note)
          /\ details.website = Str(<<"h","t","t","p","s",":","/","/","o","r","d","e","r",".","t","o","n","y","s","p","i","z","z","a",".","c","o","m">>) =>
                (has_site /\ direct /\ note = "")
    /\ (pc = "sleep" /\ Called("details", idx)) =>
          /\ written[idx].Website = csv_str(details.website)
          /\ written[idx].Note = note
    /\ \A i \in 1..Len(written) :
          Called("details", i) =>
              NoteMatches(written[i].Note, written[i].HasWebsite = "True",
                          written[i].DirectOrdering = "True", third_party_note)

\* C10 as stated: for a found place the note is "Website appears to be
\* third-party ordering" (ASCII hyphen) exactly for (TRUE, FALSE), "" exactly
\* for (TRUE, TRUE), "No website" exactly for no website, and the row carries
\* the fetched website.
C10_NoteAsStated == NoteFollowsClassification("Website appears to be third-party ordering")

\* C10 amended: the same, the third-party note spelled as the code spells it,
\* with U+2011 NON-BREAKING HYPHEN between "third" and "party".
C10_NoteFollowsClassification ==
    NoteFollowsClassification("Website appears to be third\\u2011party ordering")

\* A run about to pause after the row of a direct website, its first row being
\* the one of a third-party website
C10_Witness ==
    /\ pc = "sleep"
    /\ idx = 2
    /\ Called("details", 1) /\ Called("details", 2)
    /\ written[1].Note = "Website appears to be third\\u2011party ordering"
    /\ written[1].Website = <<"h","t","t","p","s",":","/","/","w","w","w",".","d","o","o","r","d","a","s","h",".","c","o","m","/","s","t","o","r","e","/","1","2","3">>
    /\ written[2].Note = ""
    /\ details.website = Str(<<"h","t","t","p","s",":","/","/","o","r","d","e","r",".","t","o","n","y","s","p","i","z","z","a",".","c","o","m">>)

\* The order of the steps of one entity
StepRank(ev) ==
    CASE ev = "findplacefromtext" -> 1
      [] ev = "details" -> 2
      [] ev = "row" -> 3
      [] ev = "sleep" -> 4

\* The order of the positions of the loop body
Stage(p) ==
    CASE p = "row" -> 0
      [] p = "search" -> 1
      [] p = "details" -> 2
      [] p = "emit" -> 3
      [] p = "sleep" -> 4
      [] OTHER -> 5

LoopStages == {"row", "search", "details", "emit", "sleep"}

\* The steps taken so far are those of entity 1, then those of entity 2, ...:
\* per entity at most one search, then at most one detail call, then its row
\* (classification and message composition included), then the pause when a
\* key is configured; the next entity starts only after the last step of the
\* one before.
SequentialEvents ==
    /\ events # <<>> => events[1].idx = 1
    /\ \A k \in 1..Len(events) : events[k].idx <= idx /\ events[k].idx <= Len(shops_df)
    /\ \A k \in 1..(Len(events) - 1) :
          \/ /\ events[k + 1].idx = events[k].idx
             /\ StepRank(events[k + 1].ev) > StepRank(events[k].ev)
          \/ /\ events[k + 1].idx = events[k].idx + 1
             /\ events[k].ev = IF Truthy(api_key) THEN "sleep" ELSE "row"
             /\ events[k + 1].ev = IF Truthy(api_key) THEN "findplacefromtext" ELSE "row"
    /\ \A i, j \in 1..Len(shops_df) : \A k, l \in 1..Len(events) :
          (i < j /\ events[k].idx = i /\ events[l].idx = j) => k < l
    /\ \A i \in 1..Len(shops_df) :
          Cardinality({k \in 1..Len(events) : events[k].idx = i /\ events[k].ev \in CallEvents}) <= 2
    /\ pc = "row" => \A k \in 1..Len(events) : events[k].idx < idx
    /\ pc \in {"search", "details"} => ~Called("row", idx)
    /\ pc \in {"write_output", "write_messages", "done"} =>
          /\ idx = Len(shops_df) + 1
          /\ \A i \in 1..Len(shops_df) : Called("row", i)
          /\ Len(written) = Len(shops_df)

\* A step of the run: one call, row or pause at most, never back to an earlier
\* position of the same entity, never back to an earlier entity, no entity
\* step after the last entity's steps, and none at all from the final state.
SequentialStep ==
    /\ pc \notin {"done", "raised"}
    /\ idx' \in {idx, idx + 1}
    /\ \/ events' = events
       \/ /\ Len(events') = Len(events) + 1
          /\ SubSeq(events', 1, Len(events)) = events
          /\ events'[Len(events')].idx = idx
    /\ (idx' = idx /\ pc \in LoopStages /\ pc' \in LoopStages) => Stage(pc') > Stage(pc)
    /\ idx' = idx + 1 => (pc \in {"emit", "sleep"} /\ pc' = "row")
    /\ pc' \in LoopStages => pc \in LoopStages \cup {"start", "open"}
    /\ (pc \notin LoopStages /\ pc \notin {"start", "open"}) =>
          (events' = events /\ classifications' = classifications /\ messages' = messages
           /\ idx' = idx)
    /\ Len(written') >= Len(written)

\* C11: processing is strictly sequential: for entities i < j every step of i
\* (search, optional detail call, classification and row, pause when a key is
\* configured) comes before the search of j; a step issues at most one call
\* and the call has returned when the step ends, so two calls are never
\* outstanding; no entity goes back to an earlier step; after the last entity
\* nothing is processed again and the finished run takes no further step.
C11_StrictlySequential ==
    /\ []SequentialEvents
    /\ [][SequentialStep]_vars

\* A finished run with a key whose two entities were both searched and looked
\* up: eight steps in entity order
C11_Witness ==
    /\ pc = "done"
    /\ Truthy(api_key)
    /\ Len(events) = 8
    /\ Called("details", 1) /\ Called("details", 2)
    /\ events[4] = [ev |-> "sleep", idx |-> 1, failed |-> FALSE]
    /\ events[5].ev = "findplacefromtext" /\ events[5].idx = 2

\* The display names the composer is given
ComposeNames == {r.AccountName : r \in ComposeRows}

\* What of a composed message does not depend on the name
Template(m) == <<m.subject, SubSeq(m.body, 4, Len(m.body)), SubSeq(m.sms, 2, Len(m.sms))>>

\* The three cases of the flags: 1 no website, 2 website without direct
\* ordering, 3 website with direct ordering
Case(has_website, direct_ordering) ==
    IF ~has_website THEN 1 ELSE IF ~direct_ordering THEN 2 ELSE 3

\* The phrase of the subject that names the template of a case
SubjectParts(case) ==
    CASE case = 1 -> <<"Grow your pizzeria with a ", "custom website and phone ordering", "">>
      [] case = 2 -> <<"Boost profits with ", "direct ordering and discounted delivery", "">>
      [] case = 3 -> <<"Take your online presence further with Slice\\u2019s ", "marketing & POS", "">>

\* The text of the SMS behind "<name>:"
SmsTexts == {
    " We can build you a custom website and phone ordering solution through Slice, plus discounted delivery and a POS built for pizzerias.",
    " Let\\u2019s get you off third\\u2011party apps. Slice offers direct online/phone ordering with discounted delivery and a pizzeria\\u2011specific POS.",
    " You\\u2019re already direct\\u2014let\\u2019s accelerate growth. Slice offers marketing, a custom POS, and owner resources just for pizzerias."
}

\* C12: generate_messages picks one of exactly three templates by the case of
\* the flags alone (no website, whatever direct_ordering is: "custom website
\* and phone ordering"; website without direct ordering: "direct ordering and
\* discounted delivery"; website with direct ordering: "marketing & POS"), the
\* body begins "Hi <name>," and the SMS begins "<name>:"; for "Tony's" without
\* a website the subject contains "custom website" and the SMS begins "Tony's:".
C12_ThreeTemplatesByCase ==
    /\ Cardinality({Template(generate_messages(n, h, d)) :
                       n \in ComposeNames, h \in BOOLEAN, d \in BOOLEAN}) = 3
    /\ \A n1, n2 \in ComposeNames : \A h1, h2, d1, d2 \in BOOLEAN :
          (Case(h1, d1) = Case(h2, d2)) <=>
              (Template(generate_messages(n1, h1, d1)) = Template(generate_messages(n2, h2, d2)))
    /\ pc = "composed" =>
          LET m    == messages[Len(messages)]
              name == fstr(shops_df[idx].AccountName)
              part == SubjectParts(Case(has_site, direct))
          IN  /\ Len(messages) = 1
              /\ m.EmailSubject = part[1] \o part[2] \o part[3]
              /\ SubSeq(m.EmailBody, 1, 3) = <<"Hi ", name, ",">>
              /\ m.SmsBody[1] = name
              /\ \E text \in SmsTexts : m.SmsBody[2] = ":" \o text
              /\ (shops_df[idx].AccountName = "Tony's" /\ ~has_site /\ ~direct) =>
                    /\ m.EmailSubject = "Grow your pizzeria with a " \o "custom website" \o " and phone ordering"
                    /\ m.SmsBody[1] = "Tony's"

\* The message for "Tony's" with neither flag set has been composed
C12_Witness ==
    /\ pc = "composed"
    /\ shops_df[idx].AccountName = "Tony's"
    /\ ~has_site /\ ~direct
    /\ messages[1].SmsBody[1] = "Tony's"
    /\ messages[1].EmailSubject = "Grow your pizzeria with a custom website and phone ordering"

\* C13: a workbook with a present sheet that lacks some of the four columns
\* ShopID, AccountName, BillingCity, BillingZip (after renaming) is loaded
\* without raising: the missing columns are left out.
C13_MissingColumnsTolerated ==
    (pc # "start" /\ ~FullColumns(input_file)) => Loaded

\* The corrected host stripping: lower-case, then remove one exact leading "www."
strip_www_prefix(domain) == removeprefix(lower(domain), <<"w", "w", "w", ".">>)

\* classify_website with the corrected stripping in place of lstrip("www.")
classify_website_exact_prefix(website) ==
    IF ~Truthy(website)
    THEN <<FALSE, FALSE>>
    ELSE LET parsed == urlparse_netloc(website.v)
         IN  IF parsed.exc # ""
             THEN <<TRUE, FALSE>>
             ELSE IF is_third_party(strip_www_prefix(parsed.value))
                  THEN <<TRUE, FALSE>>
                  ELSE <<TRUE, TRUE>>

WwwAbc == <<"w","w","w","a","b","c",".","c","o","m">>

\* C14: classify_website, which trims every leading 'w' and '.', returns the
\* same (has_website, direct_ordering) as the classifier that removes one
\* exact leading "www.": no aggregator domain begins with 'w' or '.'; the two
\* differ in the stripped host only, as for "wwwabc.com".
C14_TrimAgreesWithExactPrefix ==
    /\ \A third \in THIRD_PARTY_DOMAINS : third[1] \notin {"w", "."}
    /\ strip_www(WwwAbc) = <<"a","b","c",".","c","o","m">>
    /\ strip_www_prefix(WwwAbc) = WwwAbc
    /\ pc = "classified" =>
          <<has_site, direct>> = classify_website_exact_prefix(website_url)

\* https://wwwabc.com has been classified: the stripped hosts differ, the
\* classification is direct either way
C14_Witness ==
    /\ pc = "classified"
    /\ website_url = Str(<<"h","t","t","p","s",":","/","/">> \o WwwAbc)
    /\ strip_www(urlparse_netloc(website_url.v).value)
          # strip_www_prefix(urlparse_netloc(website_url.v).value)
    /\ has_site /\ direct
    /\ classify_website_exact_prefix(website_url) = <<TRUE, TRUE>>

====
